---------------------------- MODULE Spec2Model ----------------------------
(***************************************************************************)
(* Sequence packer and recurrent state router of habitat_baselines         *)
(* (rl/models/rnn_state_encoder.py).                                       *)
(*                                                                         *)
(* numpy arrays and torch tensors are functions on 0..n-1, so that every   *)
(* index below is the index the source uses.  A tensor row (all layers and *)
(* all feature / hidden components of one batch entry) is one value:       *)
(* index_select, masked_fill_ and where act on whole rows here.            *)
(***************************************************************************)
EXTENDS Integers, Sequences, FiniteSets

\* ------------------------------------------------------------- bounds
\* rollout windows have 1..MaxT steps and 1..MaxN environment slots
MaxT == 4
MaxN == 3
\* windows of at most SmallCells = T*N records are explored with every dones
\* matrix and are run through the router with every mask; larger windows
\* are packed only, with at most MaxDones true entries in dones
SmallCells == 4
MaxDones == 2
\* build_pack_info_from_episode_ids is also called on id arrays of
\* 0..MaxRecords records whose episode, environment and step ids are in
\* 0..MaxId
MaxRecords == 2
MaxId == 1
\* a BatchedEnv has 1..MaxEnvs environments; at most MaxPaused pause_at
\* calls are made between two resume_all calls and at most MaxUncollected
\* async_step calls between two wait_step calls
MaxEnvs == 5
MaxPaused == 2
MaxUncollected == 2
\* at most MaxEnded episodes end at one step of a BatchedEnv
MaxEnded == 1

\* ------------------------------------------------------------- arrays
Size(a) == Cardinality(DOMAIN a)

Range(a) == {a[i] : i \in DOMAIN a}

Empty == [i \in {} |-> 0]

\* TLC evaluates a function expression element by element, again at every
\* use; comparing it makes TLC build the array once.  Arr(f) is f.
Arr(f) == IF f = f THEN f ELSE Empty

\* a.max()
Max(a) == CHOOSE v \in Range(a) : \A w \in Range(a) : w <= v

\* a.min()
Min(a) == CHOOSE v \in Range(a) : \A w \in Range(a) : v <= w

\* a[i]; a negative index counts from the end
At(a, i) == IF i >= 0 THEN a[i] ELSE a[Size(a) + i]

\* a[inds] with an index array
Take(a, inds) == Arr([i \in DOMAIN inds |-> At(a, inds[i])])

\* the positions 0..n-1 themselves, not the values a holds there
Prefix_Positions(a, n) == Arr([i \in 0..(n - 1) |-> i])

\* a[0:n]
Prefix(a, n) == Arr([i \in 0..(n - 1) |-> a[i]])

\* np.nonzero(mask)[0]: the true positions, ascending
Nonzero(mask) ==
    LET S == {i \in DOMAIN mask : mask[i]}
    IN Arr([r \in 0..(Cardinality(S) - 1) |->
               CHOOSE i \in S : Cardinality({j \in S : j < i}) = r])

\* np.cumsum(a), inclusive
Cumsum(a) ==
    LET RECURSIVE Sum(_)
        Sum(i) == IF i < 0 THEN 0 ELSE a[i] + Sum(i - 1)
    IN Arr([i \in DOMAIN a |-> Sum(i)])

\* np.unique(a): the distinct values, ascending
Unique(a) ==
    LET S == Range(a)
    IN Arr([r \in 0..(Cardinality(S) - 1) |->
               CHOOSE v \in S : Cardinality({w \in S : w < v}) = r])

\* the counts np.unique(a, return_counts=True) returns with Unique(a)
UniqueCounts(a) ==
    LET u == Unique(a)
    IN Arr([r \in DOMAIN u |-> Cardinality({i \in DOMAIN a : a[i] = u[r]})])

\* np.argsort(keys) where the keys are pairwise distinct, as line 43
\* asserts of the only keys it sorts here (equal keys would keep their
\* order)
Argsort(keys) ==
    Arr([r \in DOMAIN keys |->
            CHOOSE i \in DOMAIN keys :
                Cardinality({j \in DOMAIN keys :
                    keys[j] < keys[i] \/ (keys[j] = keys[i] /\ j < i)}) = r])

\* np.argsort(keys) with the default, unstable sort: every ascending order
\* of the indices is a possible result (equal keys come out in any order)
RECURSIVE AscendingOrders(_, _)
AscendingOrders(keys, S) ==
    IF S = {} THEN {<<>>}
    ELSE LET lo == {i \in S : \A j \in S : keys[i] <= keys[j]}
         IN UNION {{<<i>> \o rest : rest \in AscendingOrders(keys, S \ {i})} :
                      i \in lo}

ArgsortChoices(keys) ==
    {Arr([r \in DOMAIN keys |-> o[r + 1]]) :
        o \in AscendingOrders(keys, DOMAIN keys)}


\* ------------------------------------------------------------- packer
\* an entry of an np.empty array that no statement has written yet
Unwritten == -1

\* the episode ids of different environments are left equal
GlobalEpisodeIds_NotUnique(episode_ids, environment_ids) ==
    LET num_envs == Max(environment_ids) + 1
    IN Arr([i \in DOMAIN episode_ids |-> episode_ids[i] * num_envs])

\* line 37: episode ids made globally unique
GlobalEpisodeIds(episode_ids, environment_ids) ==
    LET num_envs == Max(environment_ids) + 1
    IN Arr([i \in DOMAIN episode_ids |->
               episode_ids[i] * num_envs + environment_ids[i]])

\* line 42: the composite sort key of every record
SortKeys(episode_ids, environment_ids, step_ids) ==
    LET gids == GlobalEpisodeIds(episode_ids, environment_ids)
        num_steps == Max(step_ids) + 1
    IN Arr([i \in DOMAIN gids |-> gids[i] * num_steps + step_ids[i]])

\* lines 44-51: the records sorted by key, and the length of every episode
\* in increasing order of its global id
EpisodeIdSorting(episode_ids, environment_ids, step_ids) ==
    Argsort(SortKeys(episode_ids, environment_ids, step_ids))

SequenceLengths(episode_ids, environment_ids, step_ids) ==
    LET gids == GlobalEpisodeIds(episode_ids, environment_ids)
        sorting == EpisodeIdSorting(episode_ids, environment_ids, step_ids)
    IN UniqueCounts(Take(gids, sorting))

\* line 55: np.argsort(-sequence_lengths); equal lengths come in any order
SortedIndicesChoices(episode_ids, environment_ids, step_ids) ==
    LET sl == SequenceLengths(episode_ids, environment_ids, step_ids)
    IN ArgsortChoices(Arr([u \in DOMAIN sl |-> 0 - sl[u]]))

\* the sequences of length prev_len are counted as still running
NumValidForLength_OffByOne(lengths, num_valid_for_length, prev_len) ==
    Cardinality({k \in 0..(num_valid_for_length - 1) : lengths[k] >= prev_len})

\* lines 78-80: the sequences that are longer than prev_len
NumValidForLength(lengths, num_valid_for_length, prev_len) ==
    Cardinality({k \in 0..(num_valid_for_length - 1) : lengths[k] > prev_len})

\* every depth of a pass gathers the rows of depth prev_len
NewInds_SameDepth(sequence_starts, num_valid, prev_len, next_len) ==
    Arr([j \in 0..(num_valid * (next_len - prev_len) - 1) |->
            sequence_starts[j % num_valid] + prev_len])

\* lines 84-87: the sorted positions of depths prev_len..next_len-1, one
\* row of num_valid positions per depth
NewInds(sequence_starts, num_valid, prev_len, next_len) ==
    Arr([j \in 0..(num_valid * (next_len - prev_len) - 1) |->
            sequence_starts[j % num_valid] + prev_len + (j \div num_valid)])

\* lines 77-93: one pass of the loop per distinct length, ascending
RECURSIVE PackLoop(_, _, _, _)
PackLoop(lengths, sequence_starts, todo, st) ==
    IF todo = <<>> THEN st
    ELSE LET next_len == Head(todo)
             num_valid == NumValidForLength(lengths, st.num_valid_for_length,
                                            st.prev_len)
             new_inds == NewInds(sequence_starts, num_valid, st.prev_len, next_len)
         IN PackLoop(lengths, sequence_starts, Tail(todo),
                [offset |-> st.offset + Size(new_inds),
                 prev_len |-> next_len,
                 num_valid_for_length |-> num_valid,
                 num_seqs_at_step |->
                     Arr([d \in DOMAIN st.num_seqs_at_step |->
                             IF st.prev_len <= d /\ d < next_len
                             THEN num_valid ELSE st.num_seqs_at_step[d]]),
                 select_inds |->
                     Arr([p \in DOMAIN st.select_inds |->
                             IF st.offset <= p /\ p < st.offset + Size(new_inds)
                             THEN new_inds[p - st.offset]
                             ELSE st.select_inds[p]])])

\* the latest episode of the whole batch, not of each environment
LastSequenceInBatchMask_Global(episode_environment_ids, episode_ids_for_starts) ==
    Arr([k \in DOMAIN episode_environment_ids |->
            episode_ids_for_starts[k] = Max(episode_ids_for_starts)])

\* lines 109-117: is the episode starting at sequence_starts[k] the
\* latest / the earliest one of its environment
LastSequenceInBatchMask(episode_environment_ids, episode_ids_for_starts) ==
    Arr([k \in DOMAIN episode_environment_ids |->
            episode_ids_for_starts[k] =
                Max([j \in {i \in DOMAIN episode_environment_ids :
                              episode_environment_ids[i] =
                                  episode_environment_ids[k]}
                        |-> episode_ids_for_starts[j]])])

FirstSequenceInBatchMask(episode_environment_ids, episode_ids_for_starts) ==
    Arr([k \in DOMAIN episode_environment_ids |->
            episode_ids_for_starts[k] =
                Min([j \in {i \in DOMAIN episode_environment_ids :
                              episode_environment_ids[i] =
                                  episode_environment_ids[k]}
                        |-> episode_ids_for_starts[j]])])

\* lines 122-125: the positions (env_eps & first_sequence_in_batch_mask)
\* .nonzero()[0] of one environment; .item() needs exactly one
FirstEpInds(episode_environment_ids, first_sequence_in_batch_mask, env_id) ==
    {k \in DOMAIN episode_environment_ids :
        episode_environment_ids[k] = env_id /\ first_sequence_in_batch_mask[k]}

\* lines 119-128
RnnStateBatchInds(episode_environment_ids, first_sequence_in_batch_mask) ==
    LET first_sequence_in_batch_mask_cumsum ==
            Cumsum([k \in DOMAIN first_sequence_in_batch_mask |->
                       IF first_sequence_in_batch_mask[k] THEN 1 ELSE 0])
    IN Arr([k \in DOMAIN episode_environment_ids |->
               LET first_ep_ind ==
                       CHOOSE i \in FirstEpInds(episode_environment_ids,
                                                first_sequence_in_batch_mask,
                                                episode_environment_ids[k]) : TRUE
               IN first_sequence_in_batch_mask_cumsum[first_ep_ind] - 1])

\* lines 31-144, with sorted_indices the result of line 55's argsort
build_pack_info_from_episode_ids(episode_ids, environment_ids, step_ids, sorted_indices) ==
    LET unsorted_episode_ids == GlobalEpisodeIds(episode_ids, environment_ids)
        episode_id_sorting ==
            EpisodeIdSorting(episode_ids, environment_ids, step_ids)
        sequence_lengths ==
            SequenceLengths(episode_ids, environment_ids, step_ids)
        \* line 53: exclusive cumsum
        ends == Cumsum(sequence_lengths)
        starts0 == Arr([u \in DOMAIN sequence_lengths |->
                           ends[u] - sequence_lengths[u]])
        lengths == Take(sequence_lengths, sorted_indices)
        starts1 == Take(starts0, sorted_indices)
        max_length == lengths[0]
        loop == PackLoop(lengths, starts1,
                    LET u == Unique(lengths)
                    IN Arr([j \in 1..Size(u) |-> u[j - 1]]),
                    [offset |-> 0, prev_len |-> 0,
                     num_valid_for_length |-> Size(lengths),
                     num_seqs_at_step |->
                         Arr([d \in 0..(max_length - 1) |-> Unwritten]),
                     select_inds |->
                         Arr([p \in DOMAIN episode_ids |-> Unwritten])])
        \* line 97
        select_inds == Take(episode_id_sorting, loop.select_inds)
        \* line 98
        sequence_starts == Prefix(select_inds, loop.num_seqs_at_step[0])
        episode_environment_ids == Take(environment_ids, sequence_starts)
        episode_ids_for_starts == Take(unsorted_episode_ids, sequence_starts)
        last_sequence_in_batch_mask ==
            LastSequenceInBatchMask(episode_environment_ids,
                                    episode_ids_for_starts)
        first_sequence_in_batch_mask ==
            FirstSequenceInBatchMask(episode_environment_ids,
                                     episode_ids_for_starts)
    IN [select_inds |-> select_inds,
        num_seqs_at_step |-> loop.num_seqs_at_step,
        sequence_starts |-> sequence_starts,
        sequence_lengths |-> lengths,
        rnn_state_batch_inds |->
            RnnStateBatchInds(episode_environment_ids,
                              first_sequence_in_batch_mask),
        last_sequence_in_batch_mask |-> last_sequence_in_batch_mask,
        first_sequence_in_batch_mask |-> first_sequence_in_batch_mask,
        last_sequence_in_batch_inds |-> Nonzero(last_sequence_in_batch_mask),
        first_episode_in_batch_inds |-> Nonzero(first_sequence_in_batch_mask)]

\* lines 53-95: the value of offset when the loop has ended; line 95
\* asserts that it is select_inds.size
PackLoopOffset(episode_ids_, environment_ids_, step_ids_, sorted_indices) ==
    LET sequence_lengths ==
            SequenceLengths(episode_ids_, environment_ids_, step_ids_)
        ends == Cumsum(sequence_lengths)
        starts0 == Arr([u \in DOMAIN sequence_lengths |->
                           ends[u] - sequence_lengths[u]])
        lengths == Take(sequence_lengths, sorted_indices)
        starts1 == Take(starts0, sorted_indices)
        loop == PackLoop(lengths, starts1,
                    LET u == Unique(lengths)
                    IN Arr([j \in 1..Size(u) |-> u[j - 1]]),
                    [offset |-> 0, prev_len |-> 0,
                     num_valid_for_length |-> Size(lengths),
                     num_seqs_at_step |->
                         Arr([d \in 0..(lengths[0] - 1) |-> Unwritten]),
                     select_inds |->
                         Arr([p \in DOMAIN episode_ids_ |-> Unwritten])])
    IN loop.offset

\* the episode counter counts the dones before record (t, n) only
DonesEpisodeIds_Exclusive(d, t_, n_) ==
    Arr([i \in 0..(t_ * n_ - 1) |->
            Cardinality({t \in 0..((i \div n_) - 1) : d[t][i % n_]})])

\* lines 164-170: the flattened (T*N) id arrays of a (T, N) dones matrix;
\* record (t, n) is at t*N + n
DonesEpisodeIds(d, t_, n_) ==
    Arr([i \in 0..(t_ * n_ - 1) |->
            Cardinality({t \in 0..(i \div n_) : d[t][i % n_]})])

DonesEnvironmentIds(t_, n_) == Arr([i \in 0..(t_ * n_ - 1) |-> i % n_])

DonesStepIds(t_, n_) == Arr([i \in 0..(t_ * n_ - 1) |-> i \div n_])

\* lines 147-176
build_pack_info_from_dones(d, t_, n_, sorted_indices) ==
    build_pack_info_from_episode_ids(DonesEpisodeIds(d, t_, n_),
                                     DonesEnvironmentIds(t_, n_),
                                     DonesStepIds(t_, n_),
                                     sorted_indices)

\* the results line 55 can give for a dones matrix
DonesSortedIndicesChoices(d, t_, n_) ==
    SortedIndicesChoices(DonesEpisodeIds(d, t_, n_),
                         DonesEnvironmentIds(t_, n_),
                         DonesStepIds(t_, n_))


\* line 43: np.unique(sort_keys).size == sort_keys.size is not asserted
KeysUnique_Unchecked(sort_keys) == TRUE

\* line 43: np.unique(sort_keys).size == sort_keys.size
KeysUnique(sort_keys) == Cardinality(Range(sort_keys)) = Size(sort_keys)

\* the exception build_pack_info_from_episode_ids ends with, "none" when it
\* returns: environment_ids.max() (line 37) raises ValueError on an array
\* of size 0, and line 43 asserts that the sort keys are unique
PackRaises(episode_ids_, environment_ids_, step_ids_) ==
    IF Size(environment_ids_) = 0 THEN "ValueError"
    ELSE IF ~KeysUnique(SortKeys(episode_ids_, environment_ids_, step_ids_))
         THEN "AssertionError"
         ELSE "none"


\* ------------------------------------------------------------- router
\* torch.empty_like entries that scatter_ does not write
Garbage == -2

\* lines 17-24: output[permutation[i]] = i
invert_permutation(permutation) ==
    Arr([j \in DOMAIN permutation |->
            LET S == {i \in DOMAIN permutation : permutation[i] = j}
            IN IF S = {} THEN Garbage
               ELSE CHOOSE i \in S : \A i2 \in S : i2 <= i])

\* lines 227-229: the data of the PackedSequence
PackedData(x_, rnn_build_seq_info) == Take(x_, rnn_build_seq_info.select_inds)

\* the mask is read at the sequence's number, not at its first record
PackedStates_BySequenceNumber(rnn_states_, not_dones, rnn_build_seq_info_) ==
    LET selected == Take(rnn_states_, rnn_build_seq_info_.rnn_state_batch_inds)
    IN Arr([k \in DOMAIN selected |->
               IF ~not_dones[k] THEN 0 ELSE selected[k]])

\* lines 231-243: one hidden-state row per packed sequence
PackedStates(rnn_states, not_dones, rnn_build_seq_info) ==
    LET selected == Take(rnn_states, rnn_build_seq_info.rnn_state_batch_inds)
        starts_not_done == Take(not_dones, rnn_build_seq_info.sequence_starts)
    IN Arr([k \in DOMAIN selected |->
               IF ~starts_not_done[k] THEN 0 ELSE selected[k]])

\* the packed rows gathered by select_inds again, not by its inverse
UnpackedData_NotInverted(data, rnn_build_seq_info) ==
    Take(data, rnn_build_seq_info.select_inds)

\* lines 266-267
UnpackedData(data, rnn_build_seq_info) ==
    Take(data, invert_permutation(rnn_build_seq_info.select_inds))

\* the final states of the last sequences in packed order, not reordered
\* by rnn_state_batch_inds
OutputHiddenStates_Unordered(hidden, rnn_build_seq_info_) ==
    Take(hidden, rnn_build_seq_info_.last_sequence_in_batch_inds)

\* lines 269-280
OutputHiddenStates(hidden, rnn_build_seq_info) ==
    LET last_sequence_in_batch_inds ==
            rnn_build_seq_info.last_sequence_in_batch_inds
        rnn_state_batch_inds == rnn_build_seq_info.rnn_state_batch_inds
    IN Take(hidden,
            Take(last_sequence_in_batch_inds,
                 invert_permutation(Take(rnn_state_batch_inds,
                                         last_sequence_in_batch_inds))))

\* self.rnn on a PackedSequence (torch): at depth d the rows
\* sum(batch_sizes[0:d]) + k, k < batch_sizes[d], are step d of sequences
\* 0..batch_sizes[d]-1.  The core stands for any recurrent cell: its output
\* rows are its input rows and the final state of a sequence is its initial
\* state followed by the rows the sequence consumed, in order.
RnnOutput(data, batch_sizes, h0) == data

RnnFinalStates(data, batch_sizes, h0) ==
    LET ends == Cumsum(batch_sizes)
        offset(d) == ends[d] - batch_sizes[d]
        RECURSIVE Run(_, _)
        Run(k, d) ==
            IF d \in DOMAIN batch_sizes /\ k < batch_sizes[d]
            THEN <<data[offset(d) + k]>> \o Run(k, d + 1)
            ELSE <<>>
    IN Arr([k \in DOMAIN h0 |-> <<h0[k]>> \o Run(k, 0)])

\* masked_fill_ writes through to the caller's tensor, as it would if the
\* selected rows were a view of it
CallerStatesAfterFill_InPlace(rnn_states_, not_dones, rnn_build_seq_info_) ==
    Arr([r \in DOMAIN rnn_states_ |->
            IF \E k \in DOMAIN rnn_build_seq_info_.sequence_starts :
                  /\ rnn_build_seq_info_.rnn_state_batch_inds[k] = r
                  /\ ~At(not_dones, rnn_build_seq_info_.sequence_starts[k])
            THEN 0 ELSE rnn_states_[r]])

\* lines 236-243: the caller's hidden-state tensor after build_rnn_inputs.
\* index_select returns a new tensor and masked_fill_ writes that tensor
\* only; nothing else in the router writes in place.
CallerStatesAfterFill(rnn_states_, not_dones, rnn_build_seq_info_) ==
    rnn_states_

\* np.cumsum(dones, 0, out=dones): the counts overwrite the flags
DonesAfterPack_InPlace(d) ==
    [t \in DOMAIN d |-> [n \in DOMAIN d[t] |-> \E t2 \in 0..t : d[t2][n]]]

\* lines 165-170: the caller's dones matrix after build_pack_info_from_dones.
\* np.cumsum, np.arange, reshape and repeat allocate what they return, and
\* line 37 rebinds episode_ids to a new array.
DonesAfterPack(d) == d

\* the states of the slots whose mask is true are zeroed
MaskedStates_Inverted(hidden, masks_) ==
    Arr([n \in DOMAIN hidden |-> IF masks_[n] THEN 0 ELSE hidden[n]])

\* lines 311-313: torch.where(masks, hidden_states, 0)
MaskedStates(hidden, masks_) ==
    Arr([n \in DOMAIN hidden |-> IF masks_[n] THEN hidden[n] ELSE 0])

\* ------------------------------------------------------------- state
VARIABLES
    T, N,               \* the shape of the rollout window
    dones,              \* dones[t][n]
    rnn_build_seq_info, \* the descriptor of the window, once built
    pc,                 \* "start", "packed", "returned"
    call,               \* the method called: "forward" or "seq_forward"
    path,               \* the branch taken: "single" or "seq"
    raised,             \* the exception the call ended with, or "none"
    x,                  \* the input rows
    hidden_states,      \* the incoming hidden-state rows, one per slot
    masks,              \* the not_done mask, one entry per input row
    x_seq,              \* the packed input rows handed to the core
    seq_states,         \* the hidden-state rows handed to the core
    rnn_states,         \* the final states the core returned
    x_out,              \* the returned output rows
    out_states,         \* the returned hidden-state rows
    caller,             \* the caller's x, hidden-state and mask tensors
                        \*   as they are when the call has ended
    episode_ids,        \* the flat id arrays given to
    environment_ids,    \*   build_pack_info_from_episode_ids
    step_ids,
    unsorted_episode_ids, \* line 38: the globally unique episode ids
    self_num_envs,      \* BatchedEnv._num_envs
    self_paused,        \* BatchedEnv._paused, a list of indices
    self_is_closed,     \* BatchedEnv._is_closed
    self_bsim,          \* BatchedEnv._bsim: "BatchedSimulator" or "None"
    uncollected,        \* the async_step calls since the last wait_step
    ret,                \* what the last BatchedEnv call returned
    config,             \* the config BatchedEnv is constructed with
    bsim_log,           \* the batch simulator calls of the last method
    actions_len,        \* len(actions_flat_list) of the last (async_)step
    held,               \* the per-environment collections of the evaluator
    envs_to_pause       \* the list given to the last pause_envs call

pack_vars == <<episode_ids, environment_ids, step_ids, unsorted_episode_ids>>

env_vars == <<self_num_envs, self_paused, self_is_closed, self_bsim,
              uncollected, ret, config, bsim_log, actions_len,
              held, envs_to_pause>>

vars == <<T, N, dones, rnn_build_seq_info, pc, call, path, raised, x, hidden_states,
          masks, x_seq, seq_states, rnn_states, x_out, out_states, caller,
          episode_ids, environment_ids, step_ids, unsorted_episode_ids,
          self_num_envs, self_paused, self_is_closed, self_bsim,
          uncollected, ret, config, bsim_log, actions_len,
          held, envs_to_pause>>


router_vars == <<call, path, raised, x, hidden_states, masks, x_seq, seq_states,
                 rnn_states, x_out, out_states, caller>>

\* the subsets of S with at most k elements
RECURSIVE SubsetsUpTo(_, _)
SubsetsUpTo(S, k) ==
    IF k = 0 \/ S = {} THEN {{}}
    ELSE LET e == CHOOSE e \in S : TRUE
         IN SubsetsUpTo(S \ {e}, k) \cup
            {A \cup {e} : A \in SubsetsUpTo(S \ {e}, k - 1)}

\* the input rows and the incoming hidden-state rows are labelled, so that
\* every row shows where it came from; no live row is zero
InputRows(n_) == Arr([i \in 0..(n_ - 1) |-> 100 + i])

IncomingStates(n_) == Arr([n \in 0..(n_ - 1) |-> 200 + n])

None == [raised |-> "None"]

\* no BatchedEnv has been constructed (line 40: _is_closed starts True)
EnvUnbuilt ==
    /\ self_num_envs = 0
    /\ self_paused = <<>>
    /\ self_is_closed = TRUE
    /\ self_bsim = "None"
    /\ uncollected = 0
    /\ ret = None
    /\ config = None
    /\ bsim_log = <<>>
    /\ actions_len = 0
    /\ held = None
    /\ envs_to_pause = <<>>

Init ==
    /\ T \in 1..MaxT
    /\ N \in 1..MaxN
    /\ \E trues \in SubsetsUpTo((0..(T - 1)) \X (0..(N - 1)),
                                 IF T * N <= SmallCells THEN T * N ELSE MaxDones) :
          dones = [t \in 0..(T - 1) |-> [n \in 0..(N - 1) |-> <<t, n>> \in trues]]
    /\ rnn_build_seq_info = None
    /\ pc = "start"
    /\ call = "none"
    /\ path = "none"
    /\ raised = "none"
    /\ x = Empty
    /\ hidden_states = Empty
    /\ masks = Empty
    /\ x_seq = Empty
    /\ seq_states = Empty
    /\ rnn_states = Empty
    /\ x_out = Empty
    /\ out_states = Empty
    /\ caller = None
    /\ episode_ids = Empty
    /\ environment_ids = Empty
    /\ step_ids = Empty
    /\ unsorted_episode_ids = Empty
    /\ EnvUnbuilt

\* build_rnn_build_seq_info(device, build_fn): the rollout storage builds the
\* descriptor of the window from its dones
BuildPackInfo ==
    /\ pc = "start"
    /\ \E sorted_indices \in DonesSortedIndicesChoices(dones, T, N) :
          rnn_build_seq_info' =
              build_pack_info_from_dones(dones, T, N, sorted_indices)
    /\ episode_ids' = DonesEpisodeIds(dones, T, N)
    /\ environment_ids' = DonesEnvironmentIds(T, N)
    /\ step_ids' = DonesStepIds(T, N)
    /\ unsorted_episode_ids' =
           GlobalEpisodeIds(DonesEpisodeIds(dones, T, N),
                            DonesEnvironmentIds(T, N))
    /\ pc' = "packed"
    /\ dones' = DonesAfterPack(dones)
    /\ UNCHANGED <<T, N>>
    /\ UNCHANGED router_vars
    /\ UNCHANGED env_vars

\* lines 323-351: seq_forward on T*N rows
SeqForwardBody(rows, not_dones) ==
    LET packed == PackedData(InputRows(rows), rnn_build_seq_info)
        states == PackedStates(IncomingStates(N), not_dones, rnn_build_seq_info)
        out == RnnOutput(packed, rnn_build_seq_info.num_seqs_at_step, states)
        final == RnnFinalStates(packed, rnn_build_seq_info.num_seqs_at_step,
                                states)
    IN /\ x' = InputRows(rows)
       /\ hidden_states' = IncomingStates(N)
       /\ masks' = not_dones
       /\ x_seq' = packed
       /\ seq_states' = states
       /\ rnn_states' = final
       /\ x_out' = UnpackedData(out, rnn_build_seq_info)
       /\ out_states' = OutputHiddenStates(final, rnn_build_seq_info)
       /\ caller' = [x |-> InputRows(rows),
                     hidden_states |->
                         CallerStatesAfterFill(IncomingStates(N), not_dones,
                                               rnn_build_seq_info),
                     masks |-> not_dones]

\* lines 306-321: single_forward on N rows
SingleForwardBody(not_dones) ==
    LET states == MaskedStates(IncomingStates(N), not_dones)
        batch_sizes == [d \in {0} |-> N]
    IN /\ x' = InputRows(N)
       /\ hidden_states' = IncomingStates(N)
       /\ masks' = not_dones
       /\ x_seq' = InputRows(N)
       /\ seq_states' = states
       /\ rnn_states' = RnnFinalStates(InputRows(N), batch_sizes, states)
       /\ x_out' = RnnOutput(InputRows(N), batch_sizes, states)
       /\ out_states' = RnnFinalStates(InputRows(N), batch_sizes, states)
       /\ caller' = [x |-> InputRows(N), hidden_states |-> IncomingStates(N),
                     masks |-> not_dones]

\* the call ends with an exception before anything is packed
RaisedBody(rows, not_dones) ==
    /\ x' = InputRows(rows)
    /\ hidden_states' = IncomingStates(N)
    /\ masks' = not_dones
    /\ caller' = [x |-> InputRows(rows), hidden_states |-> IncomingStates(N),
                  masks |-> not_dones]
    /\ UNCHANGED <<x_seq, seq_states, rnn_states, x_out, out_states>>

\* RNNStateEncoder.seq_forward called on the T*N rows of the window
SeqForward ==
    /\ pc = "packed"
    /\ T * N <= SmallCells
    /\ \E not_dones \in [0..(T * N - 1) -> BOOLEAN] :
          SeqForwardBody(T * N, not_dones)
    /\ call' = "seq_forward"
    /\ path' = "seq"
    /\ raised' = "none"
    /\ pc' = "returned"
    /\ UNCHANGED <<T, N, dones, rnn_build_seq_info>>
    /\ UNCHANGED pack_vars
    /\ UNCHANGED env_vars

\* line 357: x.size(0) == hidden_states.size(1)
IsSingleStep(rows, batch) == rows = batch

\* lines 353-367: RNNStateEncoder.forward on N or on T*N input rows; the
\* caller passes the descriptor once it is built and None before
Forward ==
    /\ pc \in {"start", "packed"}
    /\ T * N <= SmallCells
    /\ \E rows \in {N, T * N} :
       \E not_dones \in [0..(rows - 1) -> BOOLEAN] :
          IF IsSingleStep(rows, N)
          THEN /\ path' = "single"
               /\ IF pc = "packed"
                  THEN raised' = "AssertionError" /\ RaisedBody(rows, not_dones)
                  ELSE raised' = "none" /\ SingleForwardBody(not_dones)
          ELSE /\ path' = "seq"
               /\ IF pc = "packed"
                  THEN raised' = "none" /\ SeqForwardBody(rows, not_dones)
                  ELSE raised' = "TypeError" /\ RaisedBody(rows, not_dones)
    /\ call' = "forward"
    /\ pc' = "returned"
    /\ UNCHANGED <<T, N, dones, rnn_build_seq_info>>
    /\ UNCHANGED pack_vars
    /\ UNCHANGED env_vars

Next == BuildPackInfo \/ SeqForward \/ Forward

Spec == Init /\ [][Next]_vars


\* ------------------------------------------------------------- packer calls
\* the router is not used
RouterUnused ==
    /\ call = "none"
    /\ path = "none"
    /\ x = Empty
    /\ hidden_states = Empty
    /\ masks = Empty
    /\ x_seq = Empty
    /\ seq_states = Empty
    /\ rnn_states = Empty
    /\ x_out = Empty
    /\ out_states = Empty
    /\ caller = None

\* the packer is called on a dones matrix of any shape (T, N), T = 0 and
\* N = 0 included, or directly on three id arrays of equal length
PackInit ==
    /\ \/ /\ pc = "start_dones"
          /\ T \in 0..MaxT
          /\ N \in 0..MaxN
          /\ T * N <= SmallCells
          /\ dones \in [0..(T - 1) -> [0..(N - 1) -> BOOLEAN]]
          /\ episode_ids = Empty
          /\ environment_ids = Empty
          /\ step_ids = Empty
       \/ /\ pc = "start_ids"
          /\ T = 0
          /\ N = 0
          /\ dones = Empty
          /\ \E len \in 0..MaxRecords :
                /\ episode_ids \in [0..(len - 1) -> 0..MaxId]
                /\ environment_ids \in [0..(len - 1) -> 0..MaxId]
                /\ step_ids \in [0..(len - 1) -> 0..MaxId]
    /\ unsorted_episode_ids = Empty
    /\ rnn_build_seq_info = None
    /\ raised = "none"
    /\ RouterUnused
    /\ EnvUnbuilt

\* lines 31-144: one call of build_pack_info_from_episode_ids, to its
\* return or to the exception it ends with
PackBody(episode_ids_, environment_ids_, step_ids_) ==
    LET r == PackRaises(episode_ids_, environment_ids_, step_ids_)
    IN /\ raised' = r
       /\ unsorted_episode_ids' =
              IF r = "ValueError" THEN Empty
              ELSE GlobalEpisodeIds(episode_ids_, environment_ids_)
       /\ IF r = "none"
          THEN \E sorted_indices \in
                     SortedIndicesChoices(episode_ids_, environment_ids_,
                                          step_ids_) :
                  rnn_build_seq_info' =
                      build_pack_info_from_episode_ids(
                          episode_ids_, environment_ids_, step_ids_,
                          sorted_indices)
          ELSE rnn_build_seq_info' = None

\* build_pack_info_from_episode_ids(episode_ids, environment_ids, step_ids)
PackFromEpisodeIds ==
    /\ pc = "start_ids"
    /\ PackBody(episode_ids, environment_ids, step_ids)
    /\ call' = "build_pack_info_from_episode_ids"
    /\ pc' = "returned"
    /\ UNCHANGED <<T, N, dones, episode_ids, environment_ids, step_ids>>
    /\ UNCHANGED <<path, x, hidden_states, masks, x_seq, seq_states,
                   rnn_states, x_out, out_states, caller>>
    /\ UNCHANGED env_vars

\* lines 147-176: build_pack_info_from_dones(dones)
PackFromDones ==
    /\ pc = "start_dones"
    /\ episode_ids' = DonesEpisodeIds(dones, T, N)
    /\ environment_ids' = DonesEnvironmentIds(T, N)
    /\ step_ids' = DonesStepIds(T, N)
    /\ PackBody(DonesEpisodeIds(dones, T, N), DonesEnvironmentIds(T, N),
                DonesStepIds(T, N))
    /\ call' = "build_pack_info_from_dones"
    /\ pc' = "returned"
    /\ dones' = DonesAfterPack(dones)
    /\ UNCHANGED <<T, N>>
    /\ UNCHANGED <<path, x, hidden_states, masks, x_seq, seq_states,
                   rnn_states, x_out, out_states, caller>>
    /\ UNCHANGED env_vars

PackNext == PackFromEpisodeIds \/ PackFromDones

PackSpec == PackInit /\ [][PackNext]_vars


\* ------------------------------------------------------------- BatchedEnv
\* (habitat/core/batched_env.py)
\* lines 95-98: doAttemptGrip, two base degrees, fifteen joint degrees
action_dim == 18

\* the paused list is ignored
num_envs_IgnoresPaused == self_num_envs

\* lines 125-128: the num_envs property
num_envs == self_num_envs - Len(self_paused)

\* lines 78-89: self._observations["rgb"] has one row per environment, made
\* once at construction; row i is environment i's
Observations == [i \in 1..self_num_envs |-> i - 1]

\* a single reward, not one per environment
StubRewards_Single == <<0>>

\* line 211: [0.0] * self._num_envs
StubRewards == [i \in 1..self_num_envs |-> 0]

\* line 212: [False] * self._num_envs
StubDones == [i \in 1..self_num_envs |-> FALSE]

\* line 218: [{}] * self._num_envs
Infos == [i \in 1..self_num_envs |-> "{}"]

\* lines 199-205: the rewards of the batch simulator, one per environment
\* (line 200 asserts it), scaled
BsimRewards == [i \in 1..self_num_envs |-> "reward"]

\* lines 201-202: the dones of the batch simulator, one per environment
\* (line 202 asserts it); an environment whose episode ended is reset by
\* the simulator itself (auto_reset_or_step_physics).  Up to MaxEnded
\* episodes end at one step.
BsimDonesChoices ==
    {[i \in 1..self_num_envs |-> i \in ended] :
        ended \in SubsetsUpTo(1..self_num_envs, MaxEnded)}

\* line 219
StepResult(rewards_, dones_) ==
    [observations |-> Observations, rewards |-> rewards_,
     dones |-> dones_, infos |-> Infos]

\* lines 59-89: the batch simulator is created and its colour buffer is
\* wrapped, unless the stub is asked for
ConstructCalls(stub) ==
    IF stub THEN <<>> ELSE <<"BatchedSimulator", "rgba">>

\* lines 156-163: the batch simulator calls of reset()
ResetCalls ==
    IF self_bsim = "BatchedSimulator"
    THEN <<IF config.OVERLAP_PHYSICS
           THEN "auto_reset_or_start_async_step_physics"
           ELSE "auto_reset_or_step_physics",
           "start_render", "wait_for_frame">>
    ELSE <<>>

\* lines 177-187: the batch simulator calls of an accepted async_step()
AsyncStepCalls ==
    IF self_bsim = "BatchedSimulator"
    THEN IF config.OVERLAP_PHYSICS
         THEN <<"wait_async_step_physics", "set_actions",
                "auto_reset_or_start_async_step_physics", "start_render">>
         ELSE <<"set_actions", "auto_reset_or_step_physics", "start_render">>
    ELSE <<>>

\* lines 193-202: the batch simulator calls of wait_step()
WaitStepCalls ==
    IF self_bsim = "BatchedSimulator"
    THEN <<"wait_for_frame", "get_rewards", "get_dones">>
    ELSE <<>>

\* the state after BatchedEnv(config), with config.NUM_ENVIRONMENTS
\* environments and config.STUB_BATCH_SIMULATOR set or not
EnvInit ==
    /\ pc = "env"
    /\ self_num_envs \in 1..MaxEnvs
    /\ self_bsim \in {"BatchedSimulator", "None"}
    /\ self_is_closed = FALSE
    /\ self_paused = <<>>
    /\ uncollected = 0
    /\ ret = None
    /\ \E overlap \in BOOLEAN :
          config = [BATCHED_ENV |-> TRUE,
                    NUM_ENVIRONMENTS |-> self_num_envs,
                    STUB_BATCH_SIMULATOR |-> (self_bsim = "None"),
                    OVERLAP_PHYSICS |-> overlap]
    /\ bsim_log = ConstructCalls(self_bsim = "None")
    /\ actions_len = 0
    /\ held = None
    /\ envs_to_pause = <<>>
    /\ call = "__init__"
    /\ raised = "none"
    /\ path = "none"
    /\ T = 0
    /\ N = 0
    /\ dones = Empty
    /\ rnn_build_seq_info = None
    /\ x = Empty
    /\ hidden_states = Empty
    /\ masks = Empty
    /\ x_seq = Empty
    /\ seq_states = Empty
    /\ rnn_states = Empty
    /\ x_out = Empty
    /\ out_states = Empty
    /\ caller = None
    /\ episode_ids = Empty
    /\ environment_ids = Empty
    /\ step_ids = Empty
    /\ unsorted_episode_ids = Empty

\* what no BatchedEnv method changes
EnvUnchanged ==
    /\ UNCHANGED <<T, N, dones, rnn_build_seq_info, path, self_num_envs,
                   config, held, envs_to_pause>>
    /\ UNCHANGED <<x, hidden_states, masks, x_seq, seq_states, rnn_states,
                   x_out, out_states, caller>>
    /\ UNCHANGED pack_vars

\* lines 151-164: reset()
Reset ==
    /\ pc = "env"
    /\ call' = "reset"
    /\ raised' = "none"
    /\ ret' = [observations |-> Observations]
    /\ bsim_log' = ResetCalls
    /\ UNCHANGED <<actions_len, pc, self_paused, self_is_closed, self_bsim, uncollected>>
    /\ EnvUnchanged

\* line 176: nothing is asserted of the number of actions
ActionsAccepted_Any(rows) == TRUE

\* line 176: assert len(actions_flat_list) == self.num_envs * self.action_dim,
\* for an action tensor of rows rows
ActionsAccepted(rows) == rows * action_dim = num_envs * action_dim

\* the action tensors handed to async_step and step: one row per running
\* environment, or one row per environment
ActionRows == {r \in {num_envs, self_num_envs} : r >= 0}

\* lines 166-187: async_step(actions); with a batch simulator the actions
\* are set and the physics step and the render are started
AsyncStep ==
    /\ pc = "env"
    /\ uncollected < MaxUncollected
    /\ call' = "async_step"
    /\ ret' = None
    /\ \E rows \in ActionRows :
          /\ actions_len' = rows * action_dim
          /\ IF ActionsAccepted(rows)
             THEN /\ raised' = "none"
                  /\ uncollected' = uncollected + 1
                  /\ bsim_log' = AsyncStepCalls
             ELSE /\ raised' = "AssertionError"
                  /\ bsim_log' = <<>>
                  /\ UNCHANGED uncollected
    /\ UNCHANGED <<pc, self_paused, self_is_closed, self_bsim>>
    /\ EnvUnchanged

\* lines 189-219: the result of wait_step()
WaitStepResults ==
    IF self_bsim = "BatchedSimulator"
    THEN {StepResult(BsimRewards, d) : d \in BsimDonesChoices}
    ELSE {StepResult(StubRewards, StubDones)}

\* lines 189-219: wait_step()
WaitStep ==
    /\ pc = "env"
    /\ call' = "wait_step"
    /\ raised' = "none"
    /\ ret' \in WaitStepResults
    /\ uncollected' = 0
    /\ bsim_log' = WaitStepCalls
    /\ UNCHANGED <<actions_len, pc, self_paused, self_is_closed, self_bsim>>
    /\ EnvUnchanged

\* lines 221-229: step(actions) is async_step(actions), then wait_step()
Step ==
    /\ pc = "env"
    /\ call' = "step"
    /\ \E rows \in ActionRows :
          /\ actions_len' = rows * action_dim
          /\ IF ActionsAccepted(rows)
             THEN /\ raised' = "none"
                  /\ ret' \in WaitStepResults
                  /\ uncollected' = 0
                  /\ bsim_log' = AsyncStepCalls \o WaitStepCalls
             ELSE /\ raised' = "AssertionError"
                  /\ ret' = None
                  /\ bsim_log' = <<>>
                  /\ UNCHANGED uncollected
    /\ UNCHANGED <<pc, self_paused, self_is_closed, self_bsim>>
    /\ EnvUnchanged

\* lines 231-238: close(), and __exit__ (line 256) and __del__ (line 250)
\* which call it.  self._bsim.close() on the None of a stub controller
\* raises AttributeError; the interpreter reports and drops an exception
\* that leaves __del__, and nothing can be called on the object afterwards.
Close ==
    /\ pc = "env"
    /\ \E via \in {"close", "__exit__", "__del__"} :
          /\ call' = via
          /\ pc' = IF via = "__del__" THEN "deleted" ELSE pc
          /\ IF self_is_closed
             THEN /\ raised' = "none"
                  /\ bsim_log' = <<>>
                  /\ UNCHANGED <<self_is_closed, self_bsim>>
             ELSE IF self_bsim = "None"
                  THEN /\ raised' = "AttributeError"
                       /\ bsim_log' = <<>>
                       /\ UNCHANGED <<self_is_closed, self_bsim>>
                  ELSE /\ raised' = "none"
                       /\ bsim_log' = <<"close">>
                       /\ self_bsim' = "None"
                       /\ self_is_closed' = TRUE
    /\ ret' = None
    /\ UNCHANGED <<self_paused, uncollected, actions_len>>
    /\ EnvUnchanged

\* lines 240-243: pause_at(index); the index is appended as it is
PauseAt ==
    /\ pc = "env"
    /\ Len(self_paused) < MaxPaused
    /\ \E index \in 0..(self_num_envs - 1) :
          self_paused' = Append(self_paused, index)
    /\ call' = "pause_at"
    /\ raised' = "none"
    /\ ret' = None
    /\ bsim_log' = <<>>
    /\ UNCHANGED <<actions_len, pc, self_is_closed, self_bsim, uncollected>>
    /\ EnvUnchanged

\* lines 245-247: resume_all()
ResumeAll ==
    /\ pc = "env"
    /\ self_paused' = <<>>
    /\ call' = "resume_all"
    /\ raised' = "none"
    /\ ret' = None
    /\ bsim_log' = <<>>
    /\ UNCHANGED <<actions_len, pc, self_is_closed, self_bsim, uncollected>>
    /\ EnvUnchanged

EnvNext ==
    \/ Reset
    \/ AsyncStep
    \/ WaitStep
    \/ Step
    \/ Close
    \/ PauseAt
    \/ ResumeAll

EnvSpec == EnvInit /\ [][EnvNext]_vars


\* ------------------------------------------------------------- construction
\* zero environments are accepted
NumEnvironmentsAccepted_NonNegative(n) == n >= 0

\* lines 43-45: assert config.NUM_ENVIRONMENTS > 0
NumEnvironmentsAccepted(n) == n > 0

\* the configs a BatchedEnv is constructed with
ConfigChoices ==
    [BATCHED_ENV : BOOLEAN,
     NUM_ENVIRONMENTS : (0 - 1)..MaxEnvs,
     STUB_BATCH_SIMULATOR : BOOLEAN,
     OVERLAP_PHYSICS : BOOLEAN]

\* BatchedEnv(config) is about to be called
BuildInit ==
    /\ pc = "unbuilt"
    /\ config \in ConfigChoices
    /\ self_num_envs = 0
    /\ self_paused = <<>>
    /\ self_is_closed = TRUE
    /\ self_bsim = "None"
    /\ uncollected = 0
    /\ ret = None
    /\ bsim_log = <<>>
    /\ actions_len = 0
    /\ held = None
    /\ envs_to_pause = <<>>
    /\ call = "none"
    /\ path = "none"
    /\ raised = "none"
    /\ T = 0
    /\ N = 0
    /\ dones = Empty
    /\ rnn_build_seq_info = None
    /\ x = Empty
    /\ hidden_states = Empty
    /\ masks = Empty
    /\ x_seq = Empty
    /\ seq_states = Empty
    /\ rnn_states = Empty
    /\ x_out = Empty
    /\ out_states = Empty
    /\ caller = None
    /\ episode_ids = Empty
    /\ environment_ids = Empty
    /\ step_ids = Empty
    /\ unsorted_episode_ids = Empty

\* lines 33-123: __init__(config); the asserts of lines 41-45 come before
\* anything is created
Construct ==
    /\ pc = "unbuilt"
    /\ call' = "__init__"
    /\ IF config.BATCHED_ENV /\ NumEnvironmentsAccepted(config.NUM_ENVIRONMENTS)
       THEN /\ raised' = "none"
            /\ pc' = "env"
            /\ self_num_envs' = config.NUM_ENVIRONMENTS
            /\ self_bsim' = IF config.STUB_BATCH_SIMULATOR
                            THEN "None" ELSE "BatchedSimulator"
            /\ bsim_log' = ConstructCalls(config.STUB_BATCH_SIMULATOR)
            /\ self_is_closed' = FALSE
       ELSE /\ raised' = "AssertionError"
            /\ pc' = "failed"
            /\ bsim_log' = <<>>
            /\ UNCHANGED <<self_num_envs, self_bsim, self_is_closed>>
    /\ self_paused' = <<>>
    /\ UNCHANGED <<uncollected, ret, config, actions_len, held,
                   envs_to_pause>>
    /\ UNCHANGED <<T, N, dones, rnn_build_seq_info, path>>
    /\ UNCHANGED <<x, hidden_states, masks, x_seq, seq_states, rnn_states,
                   x_out, out_states, caller>>
    /\ UNCHANGED pack_vars

BuildNext == Construct \/ EnvNext

BuildSpec == BuildInit /\ [][BuildNext]_vars


\* ------------------------------------------------------------- pause_envs
\* (habitat_baselines/rl/ppo/evaluator.py, habitat_baselines/dup_eval.py)
\* Python lists and the batch dimension of the evaluator's tensors are
\* sequences: position i of a sequence is Python index i - 1.

\* list(range(n))
RangeList(n) == [i \in 1..n |-> i - 1]

\* the list is walked from its first element
PauseOrder_Forward(lst) == lst

\* line 63: reversed(envs_to_pause)
PauseOrder(lst) == [i \in 1..Len(lst) |-> lst[Len(lst) + 1 - i]]

\* line 64: lst.pop(idx) leaves lst without its element at index idx
Pop(lst, idx) ==
    [i \in 1..(Len(lst) - 1) |-> IF i <= idx THEN lst[i] ELSE lst[i + 1]]

\* lines 68-78: v[state_index]
IndexBy(v, state_index) ==
    [i \in 1..Len(state_index) |-> v[state_index[i] + 1]]

\* lines 63-65: the loop over todo; pop raises IndexError on an index
\* that is not in the list
RECURSIVE PauseLoop(_, _, _)
PauseLoop(state_index, paused, todo) ==
    IF todo = <<>>
    THEN [state_index |-> state_index, paused |-> paused, raised |-> "none"]
    ELSE IF Head(todo) >= Len(state_index)
         THEN [state_index |-> state_index, paused |-> paused,
               raised |-> "IndexError"]
         ELSE PauseLoop(Pop(state_index, Head(todo)),
                        Append(paused, Head(todo)), Tail(todo))

\* the collections the evaluation loop holds, one entry per environment;
\* every entry is labelled with its collection and its environment
Collections(n) ==
    [test_recurrent_hidden_states |-> [i \in 1..n |-> 200 + i - 1],
     not_done_masks |-> [i \in 1..n |-> 300 + i - 1],
     current_episode_reward |-> [i \in 1..n |-> 400 + i - 1],
     prev_actions |-> [i \in 1..n |-> 500 + i - 1],
     batch |-> [i \in 1..n |-> 600 + i - 1],
     rgb_frames |-> [i \in 1..n |-> 700 + i - 1]]

\* the evaluation loop allocates its collections for envs.num_envs
\* environments
StartEval ==
    /\ pc = "env"
    /\ held = None
    /\ held' = Collections(num_envs)
    /\ call' = "eval"
    /\ raised' = "none"
    /\ UNCHANGED <<pc, self_paused, self_is_closed, self_bsim, uncollected,
                   ret, bsim_log, actions_len, envs_to_pause>>
    /\ UNCHANGED <<T, N, dones, rnn_build_seq_info, path, self_num_envs,
                   config>>
    /\ UNCHANGED <<x, hidden_states, masks, x_seq, seq_states, rnn_states,
                   x_out, out_states, caller>>
    /\ UNCHANGED pack_vars

\* the lists of indices of running environments given to pause_envs
RECURSIVE ListsUpTo(_, _)
ListsUpTo(S, k) ==
    IF k <= 0 THEN {<<>>}
    ELSE {<<>>} \cup {<<e>> \o l : e \in S, l \in ListsUpTo(S, k - 1)}

\* lines 42-89: pause_envs(envs_to_pause, envs, ...)
PauseEnvs ==
    /\ pc = "env"
    /\ held # None
    /\ \E lst \in ListsUpTo(0..(num_envs - 1), MaxPaused - Len(self_paused)) :
          LET loop == PauseLoop(RangeList(num_envs), self_paused,
                                PauseOrder(lst))
          IN /\ envs_to_pause' = lst
             /\ IF Len(lst) > 0
                THEN /\ self_paused' = loop.paused
                     /\ raised' = loop.raised
                     /\ held' = IF loop.raised = "none"
                                THEN [f \in DOMAIN held |->
                                         IndexBy(held[f], loop.state_index)]
                                ELSE held
                ELSE /\ raised' = "none"
                     /\ UNCHANGED <<self_paused, held>>
    /\ call' = "pause_envs"
    /\ UNCHANGED <<pc, self_is_closed, self_bsim, uncollected, ret, bsim_log,
                   actions_len>>
    /\ UNCHANGED <<T, N, dones, rnn_build_seq_info, path, self_num_envs,
                   config>>
    /\ UNCHANGED <<x, hidden_states, masks, x_seq, seq_states, rnn_states,
                   x_out, out_states, caller>>
    /\ UNCHANGED pack_vars

EvalNext == StartEval \/ PauseEnvs

EvalSpec == EnvInit /\ [][EvalNext]_vars


\* ------------------------------------------------------------- claims
info == rnn_build_seq_info

HasInfo == rnn_build_seq_info # None

\* the window read from dones alone: record (t, n) begins an episode
\* segment of slot n when it is the first record of the window or
\* dones[t][n] is true
BeginsSegment(t, n) == t = 0 \/ dones[t][n]

SegmentBegins == {b \in (0..(T - 1)) \X (0..(N - 1)) : BeginsSegment(b[1], b[2])}

\* the begin of the segment that holds record (t, n)
SegmentOf(t, n) ==
    CHOOSE b \in SegmentBegins :
        /\ b[2] = n
        /\ b[1] <= t
        /\ \A t2 \in (b[1] + 1)..t : ~BeginsSegment(t2, n)

SegmentLength(b) ==
    Cardinality({t \in 0..(T - 1) : SegmentOf(t, b[2]) = b})

IsPermutation(a, n_) ==
    /\ DOMAIN a = 0..(n_ - 1)
    /\ \A j \in 0..(n_ - 1) : Cardinality({i \in DOMAIN a : a[i] = j}) = 1

\* C1: packing x by select_inds and unpacking the rows the core returns
\* unchanged gives back x, every row at its own (t, n) position
C1_RoundTrip ==
    (call = "seq_forward" /\ pc = "returned") =>
        /\ DOMAIN x_out = 0..(T * N - 1)
        /\ \A t \in 0..(T - 1) : \A n \in 0..(N - 1) :
              x_out[t * N + n] = x[t * N + n]

\* a round trip of a window whose packed order is not the input order
C1_Witness ==
    /\ call = "seq_forward" /\ pc = "returned"
    /\ T = 2 /\ N = 1
    /\ dones[1][0]
    /\ x_seq = Take(x, info.select_inds)
    /\ \E i \in DOMAIN x_seq : x_seq[i] # x[i]
    /\ x_out = x

\* C2: select_inds holds every index of 0..T*N-1 exactly once
C2_SelectIndsPermutation ==
    HasInfo => IsPermutation(info.select_inds, T * N)

C2_Witness ==
    /\ HasInfo
    /\ T = 3 /\ N = 2
    /\ \E n \in 0..(N - 1) : dones[1][n]
    /\ \E i \in DOMAIN info.select_inds : info.select_inds[i] # i
    /\ IsPermutation(info.select_inds, T * N)

\* C3: num_seqs_at_step has one entry per depth below the longest sequence,
\* entry d counts the sequences longer than d, and it never increases
C3_NumSeqsAtStep ==
    HasInfo =>
        LET ns == info.num_seqs_at_step
            max_length == Max(info.sequence_lengths)
        IN /\ DOMAIN ns = 0..(max_length - 1)
           /\ \A d \in DOMAIN ns :
                 /\ ns[d] = Cardinality({k \in DOMAIN info.sequence_lengths :
                                            info.sequence_lengths[k] > d})
                 /\ ns[d] = Cardinality({b \in SegmentBegins :
                                            SegmentLength(b) > d})
           /\ \A d \in DOMAIN ns : d > 0 => ns[d] <= ns[d - 1]

C3_Witness ==
    /\ HasInfo
    /\ DOMAIN info.num_seqs_at_step = 0..2
    /\ info.num_seqs_at_step[0] > info.num_seqs_at_step[1]
    /\ info.num_seqs_at_step[1] > info.num_seqs_at_step[2]
    /\ \A d \in 0..2 :
          info.num_seqs_at_step[d] =
              Cardinality({k \in DOMAIN info.sequence_lengths :
                              info.sequence_lengths[k] > d})


\* the true entries of dones after the first row of the window
LaterDones == {c \in (1..(T - 1)) \X (0..(N - 1)) : dones[c[1]][c[2]]}

\* C4 as stated: num_seqs_at_step[0] == N for every dones matrix
C4_Original ==
    HasInfo => info.num_seqs_at_step[0] = N

\* C4, amended: num_seqs_at_step[0] is the number of packed sequences, N
\* plus one for every true entry of dones after the first row; it is N
\* exactly when no such entry is true
C4_NumSeqsAtStepZero ==
    HasInfo =>
        /\ info.num_seqs_at_step[0] = N + Cardinality(LaterDones)
        /\ info.num_seqs_at_step[0] = Size(info.sequence_lengths)
        /\ info.num_seqs_at_step[0] >= N
        /\ (info.num_seqs_at_step[0] = N) <=> (LaterDones = {})

C4_Witness ==
    /\ HasInfo
    /\ T = 3 /\ N = 2
    /\ dones[0][1] /\ dones[2][0]
    /\ Cardinality(LaterDones) = 1
    /\ info.num_seqs_at_step[0] = 3

\* the records of the sequence that starts at record s and has len records
SequenceRecords(s, len) == {s + d * N : d \in 0..(len - 1)}

OnlyDone(t, n) ==
    \A t2 \in 0..(T - 1) : \A n2 \in 0..(N - 1) :
        dones[t2][n2] <=> (t2 = t /\ n2 = n)

C6_AllFalse ==
    (HasInfo /\ \A t \in 0..(T - 1) : \A n \in 0..(N - 1) : ~dones[t][n]) =>
        /\ DOMAIN info.sequence_lengths = 0..(N - 1)
        /\ \A k \in 0..(N - 1) : info.sequence_lengths[k] = T
        /\ DOMAIN info.num_seqs_at_step = 0..(T - 1)
        /\ \A d \in 0..(T - 1) : info.num_seqs_at_step[d] = N
        /\ {info.sequence_starts[k] : k \in 0..(N - 1)} = 0..(N - 1)

C6_Witness ==
    /\ HasInfo
    /\ T = 4 /\ N = 2
    /\ \A t \in 0..3 : \A n \in 0..1 : ~dones[t][n]
    /\ DOMAIN info.num_seqs_at_step = 0..3
    /\ \A d \in 0..3 : info.num_seqs_at_step[d] = 2
    /\ info.sequence_lengths[0] = 4 /\ info.sequence_lengths[1] = 4


\* the slot and the records of packed sequence k
SlotOf(k) == info.sequence_starts[k] % N

RecordsOf(k) == SequenceRecords(info.sequence_starts[k], info.sequence_lengths[k])

\* the packed sequence that holds the last record of slot n in the window
LatestSequence(n) ==
    CHOOSE k \in DOMAIN info.sequence_starts : (T - 1) * N + n \in RecordsOf(k)

\* the packed sequence that holds the first record of slot n in the window
EarliestSequence(n) ==
    CHOOSE k \in DOMAIN info.sequence_starts : n \in RecordsOf(k)

SeqReturned == pc = "returned" /\ path = "seq" /\ raised = "none"

\* C7, in the case it names (no two sequences of different slots have the
\* same length, so the packed order does not depend on how equal lengths
\* are ordered): row n of the returned hidden state is the final state of
\* the latest sequence of slot n
C7_Claim ==
    (/\ SeqReturned
     /\ \A k1, k2 \in DOMAIN info.sequence_starts :
           SlotOf(k1) # SlotOf(k2) =>
               info.sequence_lengths[k1] # info.sequence_lengths[k2]) =>
        \A n \in 0..(N - 1) : out_states[n] = rnn_states[LatestSequence(n)]

\* C8: of the sequences of every slot exactly one is flagged first, the
\* earliest, and exactly one is flagged last, the latest; each mask has
\* N true entries
C8_FirstLastMasks ==
    HasInfo =>
        /\ DOMAIN info.first_sequence_in_batch_mask = DOMAIN info.sequence_starts
        /\ DOMAIN info.last_sequence_in_batch_mask = DOMAIN info.sequence_starts
        /\ \A n \in 0..(N - 1) :
              /\ {k \in DOMAIN info.sequence_starts :
                     SlotOf(k) = n /\ info.first_sequence_in_batch_mask[k]}
                    = {EarliestSequence(n)}
              /\ {k \in DOMAIN info.sequence_starts :
                     SlotOf(k) = n /\ info.last_sequence_in_batch_mask[k]}
                    = {LatestSequence(n)}
        /\ Cardinality({k \in DOMAIN info.sequence_starts :
                           info.first_sequence_in_batch_mask[k]}) = N
        /\ Cardinality({k \in DOMAIN info.sequence_starts :
                           info.last_sequence_in_batch_mask[k]}) = N
        /\ Size(info.last_sequence_in_batch_inds) = N
        /\ Size(info.first_episode_in_batch_inds) = N

\* two slots, one of them with three segments: its middle one is neither
C8_Witness ==
    /\ HasInfo
    /\ T = 4 /\ N = 2
    /\ dones[1][0] /\ dones[3][0]
    /\ Size(info.sequence_starts) = 4
    /\ \E k \in DOMAIN info.sequence_starts :
          /\ info.sequence_starts[k] = 2
          /\ ~info.first_sequence_in_batch_mask[k]
          /\ ~info.last_sequence_in_batch_mask[k]
    /\ Cardinality({k \in DOMAIN info.sequence_starts :
                       info.last_sequence_in_batch_mask[k]}) = 2

\* C9: the state a packed sequence starts from is zero when the mask of its
\* first record is false and is otherwise the incoming row that
\* rnn_state_batch_inds selects; the masks of its later records play no part
C9_PackedStates ==
    SeqReturned =>
        /\ DOMAIN seq_states = DOMAIN info.sequence_starts
        /\ \A k \in DOMAIN seq_states :
              /\ seq_states[k] =
                    IF masks[info.sequence_starts[k]]
                    THEN hidden_states[info.rnn_state_batch_inds[k]]
                    ELSE 0
              /\ (seq_states[k] = 0) <=> ~masks[info.sequence_starts[k]]

\* one sequence keeps its state although the mask of its second record is
\* false, another one starts from zero
C9_Witness ==
    /\ SeqReturned
    /\ \E k \in DOMAIN seq_states :
          /\ info.sequence_lengths[k] >= 2
          /\ masks[info.sequence_starts[k]]
          /\ ~masks[info.sequence_starts[k] + N]
          /\ seq_states[k] = hidden_states[info.rnn_state_batch_inds[k]]
          /\ seq_states[k] # 0
    /\ \E k \in DOMAIN seq_states :
          /\ ~masks[info.sequence_starts[k]]
          /\ seq_states[k] = 0

\* C10: forward takes the single-step branch exactly when it has as many
\* input rows as hidden-state rows, and then needs rnn_build_seq_info to be
\* None, and the packed branch otherwise; on the single-step branch the
\* state of slot n given to the core is zero when masks[n] is false and
\* the incoming row n when it is true
C10_ForwardDispatch ==
    (pc = "returned" /\ call = "forward") =>
        /\ (path = "single") <=> (Size(x) = Size(hidden_states))
        /\ (path # "single") <=> (path = "seq")
        /\ path = "single" => ((raised = "none") <=> ~HasInfo)
        /\ path = "single" => raised \in {"none", "AssertionError"}
        /\ (path = "single" /\ raised = "none") =>
              /\ DOMAIN seq_states = 0..(N - 1)
              /\ \A n \in 0..(N - 1) :
                    seq_states[n] = IF masks[n] THEN hidden_states[n] ELSE 0

C10_Witness ==
    /\ pc = "returned" /\ call = "forward"
    /\ path = "single" /\ raised = "none"
    /\ N = 3
    /\ masks[0] /\ ~masks[1] /\ masks[2]
    /\ seq_states[0] = hidden_states[0]
    /\ seq_states[1] = 0
    /\ seq_states[2] = hidden_states[2]

\* the composite sort key of record i, from the global episode ids
KeyOf(i) == unsorted_episode_ids[i] * (Max(step_ids) + 1) + step_ids[i]

KeysCollide ==
    /\ Size(step_ids) > 0
    /\ \E i, j \in DOMAIN step_ids : i < j /\ KeyOf(i) = KeyOf(j)

\* C11: a call of the packer on records of which two have the same
\* composite sort key ends with an exception and gives no descriptor; a
\* descriptor that is returned holds every input record exactly once
C11_DuplicateKeysRaise ==
    pc = "returned" =>
        /\ KeysCollide => (raised # "none" /\ ~HasInfo)
        /\ HasInfo => IsPermutation(info.select_inds, Size(episode_ids))

C11_Witness ==
    /\ pc = "returned"
    /\ call = "build_pack_info_from_episode_ids"
    /\ Size(episode_ids) = 2
    /\ episode_ids[0] = episode_ids[1]
    /\ environment_ids[0] = environment_ids[1]
    /\ step_ids[0] = step_ids[1]
    /\ KeysCollide
    /\ raised = "AssertionError"
    /\ ~HasInfo

\* C12: packing an empty input (T*N = 0) raises nothing and returns a
\* descriptor whose arrays are all empty
C12_Claim ==
    (pc = "returned" /\ Size(episode_ids) = 0) =>
        /\ raised = "none"
        /\ HasInfo
        /\ Size(info.select_inds) = 0
        /\ Size(info.num_seqs_at_step) = 0
        /\ Size(info.sequence_starts) = 0
        /\ Size(info.sequence_lengths) = 0
        /\ Size(info.rnn_state_batch_inds) = 0
        /\ Size(info.last_sequence_in_batch_mask) = 0
        /\ Size(info.first_sequence_in_batch_mask) = 0
        /\ Size(info.last_sequence_in_batch_inds) = 0
        /\ Size(info.first_episode_in_batch_inds) = 0

\* the number of true dones of slot n up to and including step t
DoneCount(t, n) == Cardinality({t2 \in 0..t : dones[t2][n]})

\* C13: the global episode id of record (t, n) of a dones matrix is the
\* cumulative done count of slot n times N plus n; the ids never decrease
\* along time within a slot, and records of different slots never share one
C13_GlobalEpisodeIds ==
    HasInfo =>
        /\ DOMAIN unsorted_episode_ids = 0..(T * N - 1)
        /\ \A t \in 0..(T - 1) : \A n \in 0..(N - 1) :
              unsorted_episode_ids[t * N + n] = DoneCount(t, n) * N + n
        /\ \A i, j \in DOMAIN unsorted_episode_ids :
              /\ (i % N = j % N /\ i <= j) =>
                     unsorted_episode_ids[i] <= unsorted_episode_ids[j]
              /\ i % N # j % N =>
                     unsorted_episode_ids[i] # unsorted_episode_ids[j]

C13_Witness ==
    /\ HasInfo
    /\ T = 2
    /\ N = 2
    /\ dones[1][0]
    /\ ~dones[0][0] /\ ~dones[0][1] /\ ~dones[1][1]
    /\ unsorted_episode_ids[0] = 0
    /\ unsorted_episode_ids[1] = 1
    /\ unsorted_episode_ids[2] = 2
    /\ unsorted_episode_ids[3] = 1

\* the environments no pause_at call has named
RunningSlots ==
    {i \in 0..(self_num_envs - 1) :
        \A k \in 1..Len(self_paused) : self_paused[k] # i}

PausedDistinct ==
    \A j, k \in 1..Len(self_paused) :
        j # k => self_paused[j] # self_paused[k]

StepCalls == {"wait_step", "step"}

\* C14: after pause_at on k distinct running slots, wait_step and step
\* return N-k observations, rewards, dones and infos, those of the running
\* slots in their original relative order
C14_Claim ==
    (call \in StepCalls /\ raised = "none" /\ PausedDistinct) =>
        /\ Len(ret.observations) = self_num_envs - Len(self_paused)
        /\ Len(ret.rewards) = self_num_envs - Len(self_paused)
        /\ Len(ret.dones) = self_num_envs - Len(self_paused)
        /\ Len(ret.infos) = self_num_envs - Len(self_paused)
        /\ \A i, j \in 1..Len(ret.observations) :
              i < j => ret.observations[i] < ret.observations[j]

\* C15: while the paused slots are distinct, num_envs is the number of
\* running slots, N minus the number of paused ones; right after
\* resume_all nothing is paused and num_envs is N
C15_NumEnvs ==
    /\ PausedDistinct =>
          /\ num_envs = Cardinality(RunningSlots)
          /\ num_envs = self_num_envs - Len(self_paused)
    /\ call = "resume_all" =>
          /\ self_paused = <<>>
          /\ RunningSlots = 0..(self_num_envs - 1)
          /\ num_envs = self_num_envs

C15_Witness ==
    /\ call = "pause_at"
    /\ self_num_envs = 5
    /\ self_paused = <<1, 3>>
    /\ RunningSlots = {0, 2, 4}
    /\ num_envs = 3

\* C16: with nothing paused, a step call that returns gives one
\* observation, one reward, one done flag and one info per environment
C16_StepReturnsN ==
    (call = "step" /\ raised = "none" /\ self_paused = <<>>) =>
        /\ Len(ret.observations) = self_num_envs
        /\ Len(ret.rewards) = self_num_envs
        /\ Len(ret.dones) = self_num_envs
        /\ Len(ret.infos) = self_num_envs

C16_Witness ==
    /\ call = "step"
    /\ raised = "none"
    /\ self_paused = <<>>
    /\ self_num_envs = 3
    /\ Len(ret.observations) = 3
    /\ Len(ret.rewards) = 3
    /\ Len(ret.infos) = 3
    /\ ret.dones = <<FALSE, TRUE, FALSE>>

\* C17: an async_step called with a well-formed action batch while an
\* earlier async_step is not collected ends with a usage error and
\* dispatches nothing
C17_Claim ==
    [][(uncollected >= 1 /\ call' = "async_step" /\ raised' # "AssertionError")
          => (raised' = "UsageError" /\ uncollected' = uncollected)]_vars

\* C18: a wait_step called while no async_step is pending ends with a
\* usage error and returns no step result
C18_Claim ==
    [][(uncollected = 0 /\ call' = "wait_step")
          => (raised' = "UsageError" /\ ret' = None)]_vars

\* C19: once the controller is closed, reset, async_step, wait_step and
\* step end with a usage error and return nothing
C19_Claim ==
    [][(/\ self_is_closed
        /\ call' \in {"reset", "async_step", "wait_step", "step"}
        /\ raised' # "AssertionError")
          => (raised' = "UsageError" /\ ret' = None)]_vars

\* C20: close, __exit__ and __del__ never raise and leave the controller
\* closed, its backend torn down
C20_Claim ==
    call \in {"close", "__exit__", "__del__"} =>
        /\ raised = "none"
        /\ self_is_closed
        /\ self_bsim = "None"

\* C21: async_step ends with an exception, having called nothing on the
\* batch simulator, exactly when the flattened length of its action batch
\* is not num_envs * action_dim
C21_AsyncStepRejects ==
    call = "async_step" =>
        IF actions_len # num_envs * action_dim
        THEN raised = "AssertionError" /\ bsim_log = <<>>
        ELSE raised = "none"

C21_Witness ==
    /\ call = "async_step"
    /\ self_bsim = "BatchedSimulator"
    /\ self_num_envs = 3
    /\ self_paused = <<1>>
    /\ actions_len = 3 * action_dim
    /\ raised = "AssertionError"
    /\ bsim_log = <<>>

\* C22: a constructor call with config.NUM_ENVIRONMENTS <= 0 ends with an
\* exception and no batch simulator has been created
C22_ConstructRejects ==
    (pc # "unbuilt" /\ config.NUM_ENVIRONMENTS <= 0) =>
        /\ pc = "failed"
        /\ raised = "AssertionError"
        /\ self_bsim = "None"
        /\ bsim_log = <<>>

C22_Witness ==
    /\ pc = "failed"
    /\ call = "__init__"
    /\ config.BATCHED_ENV
    /\ ~config.STUB_BATCH_SIMULATOR
    /\ config.NUM_ENVIRONMENTS = 0
    /\ raised = "AssertionError"
    /\ self_bsim = "None"
    /\ bsim_log = <<>>

IsAscending(lst) == \A i, j \in 1..Len(lst) : i < j => lst[i] < lst[j]

\* the entries of a whose Python index is not in drop, in their order
Restrict(a, drop) ==
    LET keep == {i \in 1..Len(a) : (i - 1) \notin drop}
    IN [r \in 1..Cardinality(keep) |->
           a[CHOOSE i \in keep : Cardinality({j \in keep : j < i}) = r - 1]]

\* every held collection has one entry per running environment
HeldMatches ==
    \A f \in DOMAIN held : Len(held[f]) = self_num_envs - Len(self_paused)

\* C23: pause_envs called, while every held collection has envs.num_envs
\* entries, with a strictly ascending list of running indices
\* raises nothing, hands exactly those indices to pause_at, and leaves
\* every held collection restricted to the other positions, in order, with
\* envs.num_envs entries; with an empty list nothing changes
C23_PauseEnvs ==
    [][(call' = "pause_envs" /\ HeldMatches /\ IsAscending(envs_to_pause')) =>
          /\ raised' = "none"
          /\ Len(self_paused') = Len(self_paused) + Len(envs_to_pause')
          /\ {self_paused'[i] : i \in (Len(self_paused) + 1)..Len(self_paused')}
                 = Range(envs_to_pause')
          /\ \A i \in 1..Len(self_paused) : self_paused'[i] = self_paused[i]
          /\ \A f \in DOMAIN held :
                /\ held'[f] = Restrict(held[f], Range(envs_to_pause'))
                /\ Len(held'[f]) = self_num_envs' - Len(self_paused')
          /\ envs_to_pause' = <<>> =>
                 (held' = held /\ self_paused' = self_paused)]_vars

C23_Witness ==
    /\ call = "pause_envs"
    /\ raised = "none"
    /\ self_num_envs = 5
    /\ envs_to_pause = <<1, 3>>
    /\ self_paused = <<3, 1>>
    /\ num_envs = 3
    /\ held.test_recurrent_hidden_states = <<200, 202, 204>>
    /\ held.not_done_masks = <<300, 302, 304>>
    /\ held.current_episode_reward = <<400, 402, 404>>
    /\ held.prev_actions = <<500, 502, 504>>
    /\ held.batch = <<600, 602, 604>>
    /\ held.rgb_frames = <<700, 702, 704>>

\* the begin (t, n) of the sequence whose first record has flat index i
BeginOf(i) == <<i \div N, i % N>>

\* C24: the packed rows are laid out depth by depth: with the sequences
\* numbered in descending length, row sum(num_seqs_at_step[0:d]) + k is
\* step d, in time order, of sequence k, a record of the same slot and the
\* same episode segment as the sequence's first record
C24_DepthMajor ==
    HasInfo =>
        LET ns == info.num_seqs_at_step
            ends == Cumsum(ns)
        IN \A d \in DOMAIN ns : \A k \in 0..(ns[d] - 1) :
              LET b == BeginOf(info.select_inds[k])
              IN /\ b \in SegmentBegins
                 /\ b[1] + d < T
                 /\ info.select_inds[ends[d] - ns[d] + k] = (b[1] + d) * N + b[2]
                 /\ SegmentOf(b[1] + d, b[2]) = b
                 /\ SegmentLength(b) > d
                 /\ k > 0 => SegmentLength(BeginOf(info.select_inds[k - 1]))
                                 >= SegmentLength(b)

C24_Witness ==
    /\ HasInfo
    /\ T = 3
    /\ N = 2
    /\ dones[1][0] /\ ~dones[2][0] /\ ~dones[1][1] /\ ~dones[2][1]
    /\ info.num_seqs_at_step[0] = 3
    /\ info.num_seqs_at_step[1] = 2
    /\ info.num_seqs_at_step[2] = 1
    /\ info.select_inds[0] = 1
    /\ info.select_inds[1] = 2
    /\ info.select_inds[2] = 0
    /\ info.select_inds[3] = 3
    /\ info.select_inds[4] = 4
    /\ info.select_inds[5] = 5

C26_SequenceLengths ==
    HasInfo =>
        LET sl == info.sequence_lengths
        IN /\ DOMAIN sl = 0..(Cardinality(SegmentBegins) - 1)
           /\ \A k \in DOMAIN sl :
                 /\ k > 0 => sl[k - 1] >= sl[k]
                 /\ BeginOf(info.sequence_starts[k]) \in SegmentBegins
                 /\ sl[k] = SegmentLength(BeginOf(info.sequence_starts[k]))
           /\ Cumsum(sl)[Size(sl) - 1] = T * N

C26_Witness ==
    /\ HasInfo
    /\ T = 4
    /\ N = 2
    /\ dones[1][0] /\ dones[3][1]
    /\ info.sequence_lengths[0] = 3
    /\ info.sequence_lengths[1] = 3
    /\ info.sequence_lengths[2] = 1
    /\ info.sequence_lengths[3] = 1

RouterCalls == {"forward", "seq_forward"}

C28_NoAssertionTrips ==
    HasInfo =>
        /\ KeysUnique(SortKeys(episode_ids, environment_ids, step_ids))
        /\ PackRaises(episode_ids, environment_ids, step_ids) = "none"
        /\ \A sorted_indices \in
                  SortedIndicesChoices(episode_ids, environment_ids, step_ids) :
              PackLoopOffset(episode_ids, environment_ids, step_ids,
                             sorted_indices) = T * N
        /\ \A n \in 0..(N - 1) :
              Cardinality(FirstEpInds(
                  Take(environment_ids, info.sequence_starts),
                  info.first_sequence_in_batch_mask, n)) = 1

C28_Witness ==
    /\ HasInfo
    /\ T = 3
    /\ N = 2
    /\ dones[1][0] /\ dones[2][1]
    /\ Size(info.sequence_starts) = 4
    /\ Size(info.select_inds) = 6
    /\ PackLoopOffset(episode_ids, environment_ids, step_ids,
                      CHOOSE si \in SortedIndicesChoices(
                          episode_ids, environment_ids, step_ids) : TRUE) = 6

\* C29: the sequences of one slot share one rnn_state_batch_inds value,
\* the values of different slots differ and together are 0..N-1, and the
\* returned hidden-state row r is the final state of the latest sequence
\* of the slot whose value is r, a sequence that began from incoming row r
\* or from zero
C29_ConsistentRows ==
    HasInfo =>
        LET inds == info.rnn_state_batch_inds
        IN /\ DOMAIN inds = DOMAIN info.sequence_starts
           /\ \A k1, k2 \in DOMAIN inds :
                 (SlotOf(k1) = SlotOf(k2)) <=> (inds[k1] = inds[k2])
           /\ Range(inds) = 0..(N - 1)
           /\ SeqReturned =>
                 /\ DOMAIN out_states = 0..(N - 1)
                 /\ \A n \in 0..(N - 1) :
                       out_states[inds[LatestSequence(n)]] =
                           rnn_states[LatestSequence(n)]
                 /\ \A k \in DOMAIN inds :
                       Head(rnn_states[k]) \in {0, hidden_states[inds[k]]}

C29_Witness ==
    /\ SeqReturned
    /\ T = 2
    /\ N = 2
    /\ dones[1][0] /\ ~dones[1][1]
    /\ info.rnn_state_batch_inds[0] = 0
    /\ info.rnn_state_batch_inds[1] = 1
    /\ info.rnn_state_batch_inds[2] = 1
    /\ SlotOf(0) = 1
    /\ SlotOf(1) = 0
    /\ SlotOf(2) = 0
    /\ masks[0] /\ masks[1] /\ masks[2]
    /\ out_states[0] = rnn_states[0]
    /\ out_states[1] = rnn_states[2]

\* C30: whatever pause_at and resume_all calls were made, the paused
\* indices are distinct indices of environments and 0 <= num_envs <= N
C30_Claim ==
    /\ PausedDistinct
    /\ \A k \in 1..Len(self_paused) :
          self_paused[k] \in 0..(self_num_envs - 1)
    /\ 0 <= num_envs
    /\ num_envs <= self_num_envs

=============================================================================
